---- MODULE Spec2Model ----
(***************************************************************************)
(* The privacy-leak analysis engine of whomi (src/lib/privacy/analyzer.ts) *)
(* as a state machine.  Strings are sequences of one-character strings, a  *)
(* number in [0,1] returned by the similarity function is the exact        *)
(* fraction num/den, and a Map is the sequence of its entries in insertion *)
(* order.                                                                  *)
(***************************************************************************)
EXTENDS Integers, Sequences, FiniteSets, TLC

VARIABLES
    pc,           \* position of the caller: which call has been made
    strA, strB,   \* the two arguments of calculateStringSimilarity
    similarity,   \* its result
    personas,     \* the Persona[] handed to analyzePrivacy
    warnings,     \* the PrivacyWarning[] returned / handed to the scoring
    privacyScore,     \* the result of calculatePrivacyScore
    recommendations,  \* the result of generateRecommendations
    graph,            \* the result of generatePrivacyGraph
    called,           \* the exported functions a pipeline caller has called
    hook              \* the state of usePrivacyAnalysis and its last return

vars == <<pc, strA, strB, similarity, personas, warnings, privacyScore,
          recommendations, graph, called, hook>>

----------------------------------------------------------------------------
(* Bounds of the model *)

\* longest string handed to the similarity function on its own
MaxLen == 3
\* most personas in one persona list
MaxPersonas == 3
\* most account entries in one persona list, over all its personas
MaxAccounts == 4
\* longest mixed prefix of a warning list handed to the scoring
MaxMixed == 2
\* longest run of equal warnings that ends a warning list handed to the scoring
MaxAdvised == 3
MaxLinked == 2
MaxHooked == 2
MaxRepeat == 7

----------------------------------------------------------------------------
(* Generic helpers *)

Max(x, y) == IF x >= y THEN x ELSE y

Min(x, y) == IF x <= y THEN x ELSE y

Range(s) == {s[i] : i \in 1..Len(s)}

None == "null"

----------------------------------------------------------------------------
(* Strings *)

\* String.prototype.toLowerCase, on the letters the model uses
LowerChar(c) ==
    CASE c = "A" -> "a"
      [] c = "B" -> "b"
      [] c = "C" -> "c"
      [] c = "D" -> "d"
      [] c = "E" -> "e"
      [] OTHER -> c

toLowerCase(s) == [i \in 1..Len(s) |-> LowerChar(s[i])]

\* String.prototype.split with a one-character separator: the pieces between
\* the separators, so a string with k separators gives k + 1 pieces
RECURSIVE SplitFrom(_, _, _, _, _)
SplitFrom(s, sep, i, cur, acc) ==
    IF i > Len(s) THEN Append(acc, cur)
    ELSE IF s[i] = sep THEN SplitFrom(s, sep, i + 1, <<>>, Append(acc, cur))
    ELSE SplitFrom(s, sep, i + 1, Append(cur, s[i]), acc)

split(s, sep) == SplitFrom(s, sep, 1, <<>>, <<>>)

----------------------------------------------------------------------------
(* Similarity engine: calculateStringSimilarity *)

One == [num |-> 1, den |-> 1]

Zero == [num |-> 0, den |-> 1]

\* x > n/d for the fraction x
GreaterThan(x, n, d) == x.num * d > n * x.den

MutCostAlwaysOne(x, y) == 1

\* const cost = a[i - 1] === b[j - 1] ? 0 : 1
SubstitutionCost(x, y) == IF x = y THEN 0 ELSE 1

\* Math.min(matrix[i-1][j] + 1, matrix[i][j-1] + 1, matrix[i-1][j-1] + cost)
Cell(up, left, diag, cost) ==
    Min(Min(up + 1, left + 1), diag + cost)

\* row 0 of the matrix: matrix[0][j] = j.  A row is kept as a sequence whose
\* element j + 1 is column j.
FirstRow(b) == [k \in 1..(Len(b) + 1) |-> k - 1]

\* the inner loop over j for row i; cur holds columns 0..j-1 of row i
RECURSIVE FillRow(_, _, _, _, _, _)
FillRow(prev, cur, i, j, a, b) ==
    IF j > Len(b) THEN cur
    ELSE FillRow(prev,
                 Append(cur, Cell(prev[j + 1], cur[j], prev[j],
                                  SubstitutionCost(a[i], b[j]))),
                 i, j + 1, a, b)

\* the outer loop over i; matrix holds rows 0..i-1, and matrix[i][0] = i
RECURSIVE FillMatrix(_, _, _, _)
FillMatrix(matrix, i, a, b) ==
    IF i > Len(a) THEN matrix
    ELSE FillMatrix(Append(matrix, FillRow(matrix[i], <<i>>, i, 1, a, b)),
                    i + 1, a, b)

LevenshteinMatrix(a, b) == FillMatrix(<<FirstRow(b)>>, 1, a, b)

MutSimilarityByFirstLength(a, b) ==
    IF a = b THEN One
    ELSE IF Len(a) = 0 \/ Len(b) = 0 THEN Zero
    ELSE LET distance == LevenshteinMatrix(a, b)[Len(a) + 1][Len(b) + 1]
             maxLength == Len(a)
         IN  [num |-> maxLength - distance, den |-> maxLength]

MutSimilarityNoEqualityTest(a, b) ==
    IF Len(a) = 0 \/ Len(b) = 0 THEN Zero
    ELSE LET distance == LevenshteinMatrix(a, b)[Len(a) + 1][Len(b) + 1]
             maxLength == Max(Len(a), Len(b))
         IN  [num |-> maxLength - distance, den |-> maxLength]

calculateStringSimilarity(a, b) ==
    IF a = b THEN One
    ELSE IF Len(a) = 0 \/ Len(b) = 0 THEN Zero
    ELSE LET distance == LevenshteinMatrix(a, b)[Len(a) + 1][Len(b) + 1]
             maxLength == Max(Len(a), Len(b))
         IN  [num |-> maxLength - distance, den |-> maxLength]

----------------------------------------------------------------------------
(* Map<string, string[]>: its entries in insertion order *)

MapHas(map, key) == \E k \in 1..Len(map) : map[k].key = key

\* map.get(key) || []
MapGetOrEmpty(map, key) ==
    IF MapHas(map, key)
    THEN map[CHOOSE k \in 1..Len(map) : map[k].key = key].value
    ELSE <<>>

\* map.set(key, value): an existing key keeps its place, a new one goes last
MapSet(map, key, value) ==
    IF MapHas(map, key)
    THEN [k \in 1..Len(map) |->
             IF map[k].key = key THEN [key |-> key, value |-> value] ELSE map[k]]
    ELSE Append(map, [key |-> key, value |-> value])

\* Array.from(map.keys())
MapKeys(map) == [k \in 1..Len(map) |-> map[k].key]

\* [...new Set(ids)]: the first occurrence of each element, in order
RECURSIVE Dedupe(_)
Dedupe(ids) ==
    IF ids = <<>> THEN <<>>
    ELSE LET front == Dedupe(SubSeq(ids, 1, Len(ids) - 1))
             last  == ids[Len(ids)]
         IN  IF last \in Range(front) THEN front ELSE Append(front, last)

----------------------------------------------------------------------------
(* Privacy analyzer: the three detectors *)

Quote == "\""

\* `Account "${account}" is used in multiple personas`
OverlapDescription(account) ==
    <<"Account ", Quote>> \o account \o <<Quote, " is used in multiple personas">>

\* `Similar usernames detected: "${u}" and "${v}"`
ReuseDescription(u, v) ==
    <<"Similar usernames detected: ", Quote>> \o u \o <<Quote, " and ", Quote>>
        \o v \o <<Quote>>

MetadataDescription == <<"Similar notes detected between personas">>

\* personas.forEach(persona => persona.privateData.accounts.forEach(...)):
\* the (persona id, account) visits of the two nested loops, in order
RECURSIVE AccountVisits(_)
AccountVisits(ps) ==
    IF ps = <<>> THEN <<>>
    ELSE LET p == ps[1]
         IN  [k \in 1..Len(p.privateData.accounts) |->
                 [id |-> p.id, account |-> p.privateData.accounts[k]]]
             \o AccountVisits(Tail(ps))

\* the loop body of detectAccountOverlaps, over the visits
RECURSIVE BuildAccountMap(_, _)
BuildAccountMap(visits, accountMap) ==
    IF visits = <<>> THEN accountMap
    ELSE LET v == visits[1]
             personasWithAccount == MapGetOrEmpty(accountMap, v.account)
         IN  BuildAccountMap(Tail(visits),
                 MapSet(accountMap, v.account, Append(personasWithAccount, v.id)))

MutOverlapAboveTwo(personaIds) == Len(personaIds) > 2

\* if (personaIds.length > 1)
IsOverlap(personaIds) == Len(personaIds) > 1

OverlapWarning(entry) ==
    [type |-> "account_overlap",
     description |-> OverlapDescription(entry.key),
     severity |-> "high",
     affectedPersonas |-> entry.value]

RECURSIVE OverlapWarnings(_)
OverlapWarnings(accountMap) ==
    IF accountMap = <<>> THEN <<>>
    ELSE (IF IsOverlap(accountMap[1].value)
          THEN <<OverlapWarning(accountMap[1])>> ELSE <<>>)
         \o OverlapWarnings(Tail(accountMap))

detectAccountOverlaps(ps) ==
    OverlapWarnings(BuildAccountMap(AccountVisits(ps), <<>>))

MutUsernameOfSecondPart(account) ==
    LET parts == split(account, ":")
    IN  IF Len(parts) >= 2 THEN <<toLowerCase(parts[2])>> ELSE <<>>

\* const parts = account.split(':'); if (parts.length === 2) parts[1].toLowerCase()
\* the username of an account as a list of none or one
UsernameOf(account) ==
    LET parts == split(account, ":")
    IN  IF Len(parts) = 2 THEN <<toLowerCase(parts[2])>> ELSE <<>>

RECURSIVE BuildUsernameMap(_, _)
BuildUsernameMap(visits, usernameMap) ==
    IF visits = <<>> THEN usernameMap
    ELSE LET v == visits[1]
             name == UsernameOf(v.account)
         IN  IF name = <<>>
             THEN BuildUsernameMap(Tail(visits), usernameMap)
             ELSE BuildUsernameMap(Tail(visits),
                      MapSet(usernameMap, name[1],
                             Append(MapGetOrEmpty(usernameMap, name[1]), v.id)))

\* for (i = 0; i < n; i++) for (j = i + 1; j < n; j++): the pairs in loop order
RECURSIVE PairsFrom(_, _, _)
PairsFrom(i, j, n) ==
    IF i > n THEN <<>>
    ELSE IF j > n THEN PairsFrom(i + 1, i + 2, n)
    ELSE <<<<i, j>>>> \o PairsFrom(i, j + 1, n)

IndexPairs(n) == PairsFrom(1, 2, n)

MutReuseAtThreshold(sim) == sim.num * 10 >= 7 * sim.den

\* if (similarity > 0.7)
IsUsernameReuse(sim) == GreaterThan(sim, 7, 10)

MutReuseWarningHigh(usernameMap, u, v) ==
    [type |-> "username_reuse",
     description |-> ReuseDescription(u, v),
     severity |-> "high",
     affectedPersonas |->
         Dedupe(MapGetOrEmpty(usernameMap, u) \o MapGetOrEmpty(usernameMap, v))]

\* [...new Set([...(usernameMap.get(u) || []), ...(usernameMap.get(v) || [])])]
ReuseAffected(usernameMap, u, v) ==
    Dedupe(MapGetOrEmpty(usernameMap, u) \o MapGetOrEmpty(usernameMap, v))

ReuseWarning(usernameMap, u, v) ==
    [type |-> "username_reuse",
     description |-> ReuseDescription(u, v),
     severity |-> "medium",
     affectedPersonas |-> ReuseAffected(usernameMap, u, v)]

RECURSIVE ReuseWarnings(_, _, _)
ReuseWarnings(usernameMap, allUsernames, pairs) ==
    IF pairs = <<>> THEN <<>>
    ELSE LET u == allUsernames[pairs[1][1]]
             v == allUsernames[pairs[1][2]]
         IN  (IF IsUsernameReuse(calculateStringSimilarity(u, v))
              THEN <<ReuseWarning(usernameMap, u, v)>> ELSE <<>>)
             \o ReuseWarnings(usernameMap, allUsernames, Tail(pairs))

detectUsernamePatterns(ps) ==
    LET usernameMap  == BuildUsernameMap(AccountVisits(ps), <<>>)
        allUsernames == MapKeys(usernameMap)
    IN  ReuseWarnings(usernameMap, allUsernames, IndexPairs(Len(allUsernames)))

MutNotesIgnoreEmpty(notesA, notesB) ==
    GreaterThan(calculateStringSimilarity(notesA, notesB), 1, 2)

\* if (notesA && notesB) { ... if (similarity > 0.5)
IsMetadataSimilar(notesA, notesB) ==
    /\ notesA # <<>>
    /\ notesB # <<>>
    /\ GreaterThan(calculateStringSimilarity(notesA, notesB), 1, 2)

MetadataWarning(pa, pb) ==
    [type |-> "metadata_similarity",
     description |-> MetadataDescription,
     severity |-> "low",
     affectedPersonas |-> <<pa.id, pb.id>>]

RECURSIVE MetadataWarnings(_, _)
MetadataWarnings(ps, pairs) ==
    IF pairs = <<>> THEN <<>>
    ELSE LET pa == ps[pairs[1][1]]
             pb == ps[pairs[1][2]]
         IN  (IF IsMetadataSimilar(toLowerCase(pa.privateData.notes),
                                   toLowerCase(pb.privateData.notes))
              THEN <<MetadataWarning(pa, pb)>> ELSE <<>>)
             \o MetadataWarnings(ps, Tail(pairs))

MutDetectMetadataOfNeighbours(ps) ==
    MetadataWarnings(ps, [i \in 1..Max(0, Len(ps) - 1) |-> <<i, i + 1>>])

detectMetadataSimilarities(ps) == MetadataWarnings(ps, IndexPairs(Len(ps)))

MutAnalyzeUsernamesFirst(ps) ==
    IF Len(ps) <= 1 THEN <<>>
    ELSE detectUsernamePatterns(ps) \o detectAccountOverlaps(ps)
             \o detectMetadataSimilarities(ps)

MutAnalyzeWithoutShortCircuit(ps) ==
    detectAccountOverlaps(ps) \o detectUsernamePatterns(ps)
        \o detectMetadataSimilarities(ps)

analyzePrivacy(ps) ==
    IF Len(ps) <= 1 THEN <<>>
    ELSE detectAccountOverlaps(ps) \o detectUsernamePatterns(ps)
             \o detectMetadataSimilarities(ps)

----------------------------------------------------------------------------
(* Scoring: calculatePrivacyScore *)

\* Math.round of the fraction n/d, n >= 0: the nearest integer, a half goes up
MathRound(n, d) == (2 * n + d) \div (2 * d)

MutCountBySeverity(ws, type) ==
    Len(SelectSeq(ws, LAMBDA w :
        w.severity = (CASE type = "account_overlap" -> "high"
                        [] type = "username_reuse" -> "medium"
                        [] type = "metadata_similarity" -> "low")))

\* warnings.filter(w => w.type === type).length
CountByType(ws, type) == Len(SelectSeq(ws, LAMBDA w : w.type = type))

MutGradeBoundaryBelow(score) ==
    IF score <= 60 THEN "F"
    ELSE IF score <= 70 THEN "D"
    ELSE IF score <= 80 THEN "C"
    ELSE IF score <= 90 THEN "B"
    ELSE IF score <= 95 THEN "A"
    ELSE "A+"

Grade(score) ==
    IF score < 60 THEN "F"
    ELSE IF score < 70 THEN "D"
    ELSE IF score < 80 THEN "C"
    ELSE IF score < 90 THEN "B"
    ELSE IF score < 95 THEN "A"
    ELSE "A+"

MutSubScoreBounces(count, penalty) ==
    IF 100 - count * penalty >= 0 THEN 100 - count * penalty
    ELSE count * penalty - 100

\* Math.max(0, 100 - count * penalty)
SubScore(count, penalty) == Max(0, 100 - count * penalty)

MutOverallRoundsDown(accountIsolation, usernameUniqueness, metadataSeparation) ==
    (accountIsolation * 5 + usernameUniqueness * 3 + metadataSeparation * 2) \div 10

\* Math.round(accountIsolation * 0.5 + usernameUniqueness * 0.3
\*            + metadataSeparation * 0.2)
OverallScore(accountIsolation, usernameUniqueness, metadataSeparation) ==
    MathRound(accountIsolation * 5 + usernameUniqueness * 3
                  + metadataSeparation * 2, 10)

calculatePrivacyScore(ws) ==
    LET accountOverlaps    == CountByType(ws, "account_overlap")
        usernameReuse      == CountByType(ws, "username_reuse")
        metadataSimilarity == CountByType(ws, "metadata_similarity")
        accountIsolation   == SubScore(accountOverlaps, 50)
        usernameUniqueness == SubScore(usernameReuse, 25)
        metadataSeparation == SubScore(metadataSimilarity, 15)
        score == OverallScore(accountIsolation, usernameUniqueness,
                              metadataSeparation)
    IN  [score |-> score,
         grade |-> Grade(score),
         accountIsolation |-> accountIsolation,
         usernameUniqueness |-> usernameUniqueness,
         metadataSeparation |-> metadataSeparation]

----------------------------------------------------------------------------
(* Recommendations: generateRecommendations *)

\* the place of the first double quote of desc after place i, or 0
RECURSIVE NextQuote(_, _)
NextQuote(desc, i) ==
    IF i >= Len(desc) THEN 0
    ELSE IF desc[i + 1] = Quote THEN i + 1
    ELSE NextQuote(desc, i + 1)

\* description.match(/"([^"]+)"/)?.[1], as a list of none or one: the leftmost
\* double quote followed by one or more other characters and a double quote
RECURSIVE MatchQuotedFrom(_, _)
MatchQuotedFrom(desc, i) ==
    IF i > Len(desc) THEN <<>>
    ELSE IF desc[i] = Quote /\ NextQuote(desc, i) > i + 1
         THEN <<SubSeq(desc, i + 1, NextQuote(desc, i) - 1)>>
         ELSE MatchQuotedFrom(desc, i + 1)

MatchQuoted(desc) == MatchQuotedFrom(desc, 1)

OverlapAdvice ==
    <<"Avoid using the same accounts across different personas to maintain separation.">>

\* `Consider removing account "${account}" from all but one persona.`
AccountAdvice(account) ==
    <<"Consider removing account ", Quote>> \o account
        \o <<Quote, " from all but one persona.">>

UsernameAdvice ==
    <<"Use completely different username patterns across personas to avoid correlation.">>

MetadataAdvice ==
    <<"Avoid using similar language or content in notes across different personas.">>

StyleAdvice ==
    <<"Consider using different writing styles for each persona to avoid stylometric analysis.">>

TimingAdvice ==
    <<"Be mindful of timing patterns - avoid switching between personas at predictable intervals.">>

PositiveAdvice ==
    <<"Great job! Continue maintaining separation between your personas.">>

\* accountOverlaps.forEach(warning => { ... if (account) recommendations.push })
RECURSIVE AccountAdvices(_)
AccountAdvices(accountOverlaps) ==
    IF accountOverlaps = <<>> THEN <<>>
    ELSE LET account == MatchQuoted(accountOverlaps[1].description)
         IN  (IF account # <<>> THEN <<AccountAdvice(account[1])>> ELSE <<>>)
             \o AccountAdvices(Tail(accountOverlaps))

\* the block of one warning type: warnings.filter(...), if (length > 0) push
OverlapBlock(ws) ==
    LET accountOverlaps == SelectSeq(ws, LAMBDA w : w.type = "account_overlap")
    IN  IF Len(accountOverlaps) > 0
        THEN <<OverlapAdvice>> \o AccountAdvices(accountOverlaps)
        ELSE <<>>

MutUsernameBlockPerWarning(ws) ==
    [k \in 1..Len(SelectSeq(ws, LAMBDA w : w.type = "username_reuse")) |->
        UsernameAdvice]

UsernameBlock(ws) ==
    IF Len(SelectSeq(ws, LAMBDA w : w.type = "username_reuse")) > 0
    THEN <<UsernameAdvice>> ELSE <<>>

MetadataBlock(ws) ==
    IF Len(SelectSeq(ws, LAMBDA w : w.type = "metadata_similarity")) > 0
    THEN <<MetadataAdvice>> ELSE <<>>

MutGeneralBlockByOverlaps(ws) ==
    IF OverlapBlock(ws) # <<>> THEN <<StyleAdvice, TimingAdvice>>
    ELSE <<PositiveAdvice>>

\* if (warnings.length > 0) { push, push } else { push }
GeneralBlock(ws) ==
    IF Len(ws) > 0 THEN <<StyleAdvice, TimingAdvice>> ELSE <<PositiveAdvice>>

generateRecommendations(ws) ==
    OverlapBlock(ws) \o UsernameBlock(ws) \o MetadataBlock(ws) \o GeneralBlock(ws)

----------------------------------------------------------------------------
(* Graph transform: PrivacyGraph.generateGraphData *)

MutLabelFirstSeven(id) == SubSeq(id, 1, Min(7, Len(id)))

\* id.substring(0, 8)
Label(id) == SubSeq(id, 1, Min(8, Len(id)))

MutNodeIdIsLabel(persona) ==
    [id |-> SubSeq(persona.id, 1, Min(8, Len(persona.id))),
     type |-> "persona",
     accounts |-> Len(persona.privateData.accounts),
     label |-> SubSeq(persona.id, 1, Min(8, Len(persona.id)))]

Node(persona) ==
    [id |-> persona.id,
     type |-> "persona",
     accounts |-> Len(persona.privateData.accounts),
     label |-> Label(persona.id)]

\* the links of one warning: a pair for every i < j of its affectedPersonas
LinksOf(warning) ==
    LET personaIds == warning.affectedPersonas
        pairs == IndexPairs(Len(personaIds))
    IN  [k \in 1..Len(pairs) |->
            [source |-> personaIds[pairs[k][1]],
             target |-> personaIds[pairs[k][2]],
             type |-> warning.type,
             severity |-> warning.severity]]

\* warnings.flatMap(...)
RECURSIVE Links(_)
Links(ws) ==
    IF ws = <<>> THEN <<>> ELSE LinksOf(ws[1]) \o Links(Tail(ws))

MutGraphDataMergedLinks(ps, ws) ==
    [nodes |-> [k \in 1..Len(ps) |-> Node(ps[k])], links |-> Dedupe(Links(ws))]

generateGraphData(ps, ws) ==
    [nodes |-> [k \in 1..Len(ps) |-> Node(ps[k])], links |-> Links(ws)]

----------------------------------------------------------------------------
(* Hook: usePrivacyAnalysis *)

\* a field that the stored data lacks: no text, shown as the one mark
Undefined == <<"undefined">>

\* the useState defaults; null is the empty list of none or one
UnusedHook ==
    [isAnalyzing |-> FALSE,
     warnings |-> <<>>,
     privacyScore |-> <<>>,
     recommendations |-> <<>>,
     error |-> None,
     returned |-> <<>>]

\* PrivacyAnalyzer.analyzePrivacy(personas) throws: past the short circuit,
\* personas[i].privateData.notes.toLowerCase() is reached for every persona
Throws(ps) ==
    /\ Len(ps) > 1
    /\ \E i \in 1..Len(ps) : ps[i].privateData.notes = Undefined

----------------------------------------------------------------------------
(* Graph page: the Overall Rating badge *)

\* warnings.some(w => w.severity === severity)
SomeSeverity(ws, severity) == \E k \in 1..Len(ws) : ws[k].severity = severity

\* the letter the page renders from its warnings
OverallRating(ws) ==
    IF Len(ws) = 0 THEN "A+"
    ELSE IF SomeSeverity(ws, "high") THEN "C"
    ELSE IF SomeSeverity(ws, "medium") THEN "B"
    ELSE "A"

----------------------------------------------------------------------------
(* Inputs *)

\* the characters of the strings compared on their own
Alphabet == {"a", "b", "A"}

Strings == UNION {[1..n -> Alphabet] : n \in 0..MaxLen}

\* account strings, "<platform>:<handle>" by convention
TwAbcd    == <<"t", ":", "a", "b", "c", "d">>
GhAbcd    == <<"g", ":", "a", "b", "c", "d">>
TwUpper   == <<"t", ":", "A", "b", "c", "d">>
GhAbcE    == <<"g", ":", "a", "b", "c", "E">>
TwAbc     == <<"t", ":", "a", "b", "c">>
GhAbd     == <<"g", ":", "a", "b", "d">>
TwLong    == <<"t", ":", "a", "b", "c", "d", "e", "f", "g", "h", "i", "j">>
GhLong    == <<"g", ":", "a", "b", "c", "d", "e", "f", "g", "x", "y", "z">>
NoColon   == <<"a", "b", "c", "d">>
TwoColons == <<"t", ":", "a", "b", ":", "c", "d">>
EmptyAccount  == <<>>
QuotedAccount == <<"t", ":", Quote, "a">>

\* the account strings of one persona list are drawn from one of these pairs:
\* one username on two platforms or in two spellings, usernames at similarity
\* 0.75, 0.667, 0.7 and 0.4, and strings without exactly one colon
PoolPairs ==
    {{TwAbcd, GhAbcd}, {TwAbcd, TwUpper}, {TwAbcd, GhAbcE}, {GhAbcE, TwAbc},
     {TwAbc, GhAbd}, {TwLong, GhLong}, {TwAbcd, TwLong}, {TwAbcd, NoColon},
     {TwAbcd, TwoColons}, {NoColon, TwoColons}, {TwAbcd, EmptyAccount},
     {TwAbcd, QuotedAccount}, {EmptyAccount, QuotedAccount}}

AccountPool == UNION PoolPairs

NotePool ==
    {<<>>, <<"a", "b", "c", "d">>, <<"A", "B", "C", "D">>,
     <<"a", "b", "c", "E">>, <<"a", "b", "x", "y">>}

IdPool == <<"p1", "p2", "p3", "p4", "p5", "p6">>

PersonaId(k) == IdPool[k]

Persona(id, accounts, notes) ==
    [id |-> id,
     isPublic |-> FALSE,
     privateData |-> [accounts |-> accounts, signedProofs |-> <<>>,
                      notes |-> notes]]

\* n personas with empty notes sharing out the k account entries of flat:
\* persona i holds the entries after cut[i - 1] up to cut[i]
SharedOut(n, flat, cut) ==
    [i \in 1..n |->
        Persona(PersonaId(i),
                SubSeq(flat, (IF i = 1 THEN 0 ELSE cut[i - 1]) + 1, cut[i]),
                <<>>)]

IsCut(n, k, cut) ==
    /\ \A i \in 1..n : (IF i = 1 THEN 0 ELSE cut[i - 1]) <= cut[i]
    /\ IF n = 0 THEN k = 0 ELSE cut[n] = k

\* persona ids as text: shorter than, as long as and longer than a graph label;
\* the application's own ids are `persona_${Date.now()}`
PersonaPrefix == <<"p", "e", "r", "s", "o", "n", "a", "_">>

TextIdPool ==
    <<PersonaPrefix \o <<"1">>, <<"p", "2">>, PersonaPrefix,
      PersonaPrefix \o <<"4", "0">>, <<"a", "l", "i", "c", "e", "_", "5">>>>

TextId(k) == TextIdPool[k]

\* the same personas under text ids
WithTextIds(ps) == [i \in 1..Len(ps) |-> [ps[i] EXCEPT !.id = TextId(i)]]

\* a string of two colons whose middle part is close to a username
TwoColonsClose == <<"t", ":", "a", "b", "c", "d", ":", "x">>

\* two close usernames together with a string of no colon or of two colons
SkippedPools == {{TwAbcd, GhAbcE, NoColon}, {TwAbcd, GhAbcE, TwoColonsClose}}

\* the persona lists analyzed in every order: each persona with no account,
\* one account or two accounts of close usernames, with or without notes
ReorderedPersonas ==
    UNION {{[i \in 1..n |-> Persona(PersonaId(i), accounts[i], notes[i])] :
               accounts \in [1..n -> {<<>>, <<TwAbcd>>, <<TwAbcd, GhAbcE>>}],
               notes \in [1..n -> {<<>>, <<"a", "b", "c", "d">>}]} :
           n \in 0..MaxPersonas}

\* the pairs of account strings of the pipeline's persona lists
PipelinePairs ==
    {{TwAbcd, GhAbcE}, {TwAbcd, QuotedAccount}, {TwAbcd, EmptyAccount}}

WarningTypes == {"account_overlap", "username_reuse", "metadata_similarity"}

Severities == {"low", "medium", "high"}

\* the warnings handed to the scoring on its own
WarningPool ==
    {[type |-> t, description |-> MetadataDescription, severity |-> s,
      affectedPersonas |-> <<"p1", "p2">>] : t \in WarningTypes, s \in Severities}

\* an account string that begins with a double quote
LeadingQuoteAccount == <<Quote, "a">>

\* warnings handed to generateRecommendations: overlaps of a plain, a quoted,
\* an empty and a quote-led account string, an overlap whose text quotes nothing, a
\* username warning and a notes warning
AdvisedPool ==
    {[type |-> "account_overlap", description |-> d, severity |-> "high",
      affectedPersonas |-> <<"p1", "p2">>] :
        d \in {OverlapDescription(TwAbcd), OverlapDescription(QuotedAccount),
               OverlapDescription(EmptyAccount),
               OverlapDescription(LeadingQuoteAccount), MetadataDescription}}
    \cup {[type |-> "username_reuse",
           description |-> ReuseDescription(<<"a", "b">>, <<"a", "c">>),
           severity |-> "medium", affectedPersonas |-> <<"p1", "p2">>],
          [type |-> "metadata_similarity", description |-> MetadataDescription,
           severity |-> "low", affectedPersonas |-> <<"p1", "p2">>]}

\* the persona lists handed to generatePrivacyGraph: ids of differing length,
\* no account or two accounts each
GraphPersonas ==
    UNION {{[i \in 1..n |-> Persona(TextId(i), accounts[i], <<>>)] :
               accounts \in [1..n -> {<<>>, <<TwAbcd, GhAbcE>>}]} :
           n \in 0..MaxPersonas}

\* the warnings handed to generatePrivacyGraph: two types, naming two personas
\* in either order, three personas, or one persona twice
LinkedPool ==
    {[type |-> t[1], description |-> MetadataDescription, severity |-> t[2],
      affectedPersonas |-> ids] :
        t \in {<<"account_overlap", "high">>, <<"metadata_similarity", "low">>},
        ids \in {<<TextId(1), TextId(2)>>, <<TextId(2), TextId(1)>>,
                 <<TextId(1), TextId(2), TextId(3)>>, <<TextId(1), TextId(1)>>}}

\* the persona lists handed to the hook: notes present or missing
HookedPersonas ==
    UNION {{[i \in 1..n |-> Persona(PersonaId(i), accounts[i], notes[i])] :
               accounts \in [1..n -> {<<>>, <<TwAbcd>>}],
               notes \in [1..n -> {<<"a", "b", "c", "d">>, Undefined}]} :
           n \in 0..MaxHooked}

MixedPrefixes == UNION {[1..n -> WarningPool] : n \in 0..MaxMixed}

Run(w, n) == [i \in 1..n |-> w]

----------------------------------------------------------------------------
(* The state machines *)

\* a caller about to compare two strings
InitSimilarity ==
    /\ pc = "idle"
    /\ strA \in Strings
    /\ strB \in Strings
    /\ similarity = None
    /\ personas = <<>>
    /\ warnings = <<>>
    /\ privacyScore = None
    /\ recommendations = None
    /\ graph = None
    /\ called = {}
    /\ hook = UnusedHook

CalculateStringSimilarity ==
    /\ pc = "idle"
    /\ similarity' = calculateStringSimilarity(strA, strB)
    /\ pc' = "compared"
    /\ UNCHANGED <<strA, strB, personas, warnings, privacyScore, recommendations,
                   graph, called, hook>>

NextSimilarity == CalculateStringSimilarity

SpecSimilarity == InitSimilarity /\ [][NextSimilarity]_vars

\* a caller about to analyze a persona list: either personas with empty notes
\* whose accounts come from one pair of the pool, or personas with notes and at
\* most one account each
InitAccounts ==
    \E n \in 0..MaxPersonas, pool \in PoolPairs, k \in 0..MaxAccounts :
        \E flat \in [1..k -> pool], cut \in [1..n -> 0..k] :
            /\ IsCut(n, k, cut)
            /\ personas = SharedOut(n, flat, cut)

InitNotes ==
    \E n \in 0..MaxPersonas :
        \E accounts \in [1..n -> {<<>>, <<TwAbcd>>, <<GhAbcE>>}],
           notes \in [1..n -> NotePool] :
            personas = [i \in 1..n |->
                           Persona(PersonaId(i), accounts[i], notes[i])]

Init ==
    /\ pc = "idle"
    /\ strA = <<>>
    /\ strB = <<>>
    /\ similarity = None
    /\ InitAccounts \/ InitNotes
    /\ warnings = <<>>
    /\ privacyScore = None
    /\ recommendations = None
    /\ graph = None
    /\ called = {}
    /\ hook = UnusedHook

AnalyzePrivacy ==
    /\ pc = "idle"
    /\ warnings' = analyzePrivacy(personas)
    /\ pc' = "analyzed"
    /\ UNCHANGED <<strA, strB, similarity, personas, privacyScore,
                   recommendations, graph, called, hook>>

Next == AnalyzePrivacy

Spec == Init /\ [][Next]_vars

\* a caller about to score a warning list: a mixed prefix, then a run
InitScore ==
    /\ pc = "idle"
    /\ strA = <<>>
    /\ strB = <<>>
    /\ similarity = None
    /\ personas = <<>>
    /\ \E prefix \in MixedPrefixes, w \in WarningPool, n \in 0..MaxRepeat :
           warnings = prefix \o Run(w, n)
    /\ privacyScore = None
    /\ recommendations = None
    /\ graph = None
    /\ called = {}
    /\ hook = UnusedHook

CalculatePrivacyScore ==
    /\ pc = "idle"
    /\ privacyScore' = calculatePrivacyScore(warnings)
    /\ pc' = "scored"
    /\ UNCHANGED <<strA, strB, similarity, personas, warnings, recommendations,
                   graph, called, hook>>

NextScore == CalculatePrivacyScore

SpecScore == InitScore /\ [][NextScore]_vars

\* a caller about to analyze personas whose accounts mix usernames with
\* strings that do not have exactly one colon
InitSkipped ==
    /\ pc = "idle"
    /\ strA = <<>>
    /\ strB = <<>>
    /\ similarity = None
    /\ \E n \in 0..MaxPersonas, pool \in SkippedPools, k \in 0..MaxAccounts :
           \E flat \in [1..k -> pool], cut \in [1..n -> 0..k] :
               /\ IsCut(n, k, cut)
               /\ personas = SharedOut(n, flat, cut)
    /\ warnings = <<>>
    /\ privacyScore = None
    /\ recommendations = None
    /\ graph = None
    /\ called = {}
    /\ hook = UnusedHook

SpecSkipped == InitSkipped /\ [][Next]_vars

\* a caller about to analyze a persona list that could be given in any order
InitReorder ==
    /\ pc = "idle"
    /\ strA = <<>>
    /\ strB = <<>>
    /\ similarity = None
    /\ personas \in ReorderedPersonas
    /\ warnings = <<>>
    /\ privacyScore = None
    /\ recommendations = None
    /\ graph = None
    /\ called = {}
    /\ hook = UnusedHook

SpecReorder == InitReorder /\ [][Next]_vars

\* a component that has mounted the hook and calls analyzePersonas at will;
\* pc is the position inside analyzePersonas
InitHook ==
    /\ pc = "idle"
    /\ strA = <<>>
    /\ strB = <<>>
    /\ similarity = None
    /\ personas = <<>>
    /\ warnings = <<>>
    /\ privacyScore = None
    /\ recommendations = None
    /\ graph = None
    /\ called = {}
    /\ hook = UnusedHook

\* analyzePersonas(personas): setIsAnalyzing(true); setError(null)
HookBegin ==
    /\ pc = "idle"
    /\ \E ps \in HookedPersonas : personas' = ps
    /\ hook' = [hook EXCEPT !.isAnalyzing = TRUE, !.error = None]
    /\ pc' = "try"
    /\ UNCHANGED <<strA, strB, similarity, warnings, privacyScore,
                   recommendations, graph, called>>

\* the try block: it runs to its return, or analyzePrivacy throws
HookTry ==
    /\ pc = "try"
    /\ IF Throws(personas)
       THEN /\ pc' = "catch"
            /\ hook' = hook
       ELSE LET detectedWarnings == analyzePrivacy(personas)
                score == calculatePrivacyScore(detectedWarnings)
                recs == generateRecommendations(detectedWarnings)
            IN  /\ hook' = [hook EXCEPT
                       !.warnings = detectedWarnings,
                       !.privacyScore = <<score>>,
                       !.recommendations = recs,
                       !.returned = <<[warnings |-> detectedWarnings,
                                       score |-> score,
                                       recommendations |-> recs]>>]
                /\ pc' = "finally"
    /\ UNCHANGED <<strA, strB, similarity, personas, warnings, privacyScore,
                   recommendations, graph, called>>

\* catch (err): setError('Failed to analyze privacy'); return null
HookCatch ==
    /\ pc = "catch"
    /\ hook' = [hook EXCEPT !.error = "Failed to analyze privacy",
                            !.returned = <<>>]
    /\ pc' = "finally"
    /\ UNCHANGED <<strA, strB, similarity, personas, warnings, privacyScore,
                   recommendations, graph, called>>

MutHookFinallyAfterSuccess ==
    /\ pc = "finally"
    /\ hook' = [hook EXCEPT !.isAnalyzing = (hook.error # None)]
    /\ pc' = "idle"
    /\ UNCHANGED <<strA, strB, similarity, personas, warnings, privacyScore,
                   recommendations, graph, called>>

\* finally: setIsAnalyzing(false); the call returns
HookFinally ==
    /\ pc = "finally"
    /\ hook' = [hook EXCEPT !.isAnalyzing = FALSE]
    /\ pc' = "idle"
    /\ UNCHANGED <<strA, strB, similarity, personas, warnings, privacyScore,
                   recommendations, graph, called>>

NextHook ==
    \/ HookBegin
    \/ HookTry
    \/ HookCatch
    \/ HookFinally

SpecHook == InitHook /\ [][NextHook]_vars

\* a caller about to ask for the recommendations of a warning list
InitRecommend ==
    /\ pc = "idle"
    /\ strA = <<>>
    /\ strB = <<>>
    /\ similarity = None
    /\ personas = <<>>
    /\ \E n \in 0..MaxAdvised : warnings \in [1..n -> AdvisedPool]
    /\ privacyScore = None
    /\ recommendations = None
    /\ graph = None
    /\ called = {}
    /\ hook = UnusedHook

GenerateRecommendations ==
    /\ pc = "idle"
    /\ recommendations' = generateRecommendations(warnings)
    /\ pc' = "advised"
    /\ UNCHANGED <<strA, strB, similarity, personas, warnings, privacyScore,
                   graph, called, hook>>

NextRecommend == GenerateRecommendations

SpecRecommend == InitRecommend /\ [][NextRecommend]_vars

\* a caller about to ask for the graph of a persona list and a warning list
InitGraph ==
    /\ pc = "idle"
    /\ strA = <<>>
    /\ strB = <<>>
    /\ similarity = None
    /\ personas \in GraphPersonas
    /\ \E n \in 0..MaxLinked : warnings \in [1..n -> LinkedPool]
    /\ privacyScore = None
    /\ recommendations = None
    /\ graph = None
    /\ called = {}
    /\ hook = UnusedHook

GeneratePrivacyGraph ==
    /\ pc = "idle"
    /\ graph' = generateGraphData(personas, warnings)
    /\ pc' = "graphed"
    /\ UNCHANGED <<strA, strB, similarity, personas, warnings, privacyScore,
                   recommendations, called, hook>>

NextGraph == GeneratePrivacyGraph

SpecGraph == InitGraph /\ [][NextGraph]_vars

\* a caller of the exported functions: analyzePrivacy on a persona list, then
\* calculatePrivacyScore, generateRecommendations and generatePrivacyGraph on
\* its output, each once and in any order
InitPipeline ==
    /\ pc = "idle"
    /\ strA = <<>>
    /\ strB = <<>>
    /\ similarity = None
    /\ \E n \in 0..MaxPersonas, pool \in PipelinePairs, k \in 0..MaxAccounts :
           \E flat \in [1..k -> pool], cut \in [1..n -> 0..k] :
               /\ IsCut(n, k, cut)
               /\ personas = WithTextIds(SharedOut(n, flat, cut))
    /\ warnings = <<>>
    /\ privacyScore = None
    /\ recommendations = None
    /\ graph = None
    /\ called = {}
    /\ hook = UnusedHook

PipelineAnalyze ==
    /\ pc = "idle"
    /\ warnings' = analyzePrivacy(personas)
    /\ pc' = "analyzed"
    /\ called' = {"analyzePrivacy"}
    /\ UNCHANGED <<strA, strB, similarity, personas, privacyScore,
                   recommendations, graph, hook>>

PipelineScore ==
    /\ pc = "analyzed"
    /\ "calculatePrivacyScore" \notin called
    /\ called' = called \cup {"calculatePrivacyScore"}
    /\ privacyScore' = calculatePrivacyScore(warnings)
    /\ UNCHANGED <<pc, strA, strB, similarity, personas, warnings,
                   recommendations, graph, hook>>

PipelineRecommend ==
    /\ pc = "analyzed"
    /\ "generateRecommendations" \notin called
    /\ called' = called \cup {"generateRecommendations"}
    /\ recommendations' = generateRecommendations(warnings)
    /\ UNCHANGED <<pc, strA, strB, similarity, personas, warnings,
                   privacyScore, graph, hook>>

MutPipelineGraphLabelsPersonas ==
    /\ pc = "analyzed"
    /\ "generatePrivacyGraph" \notin called
    /\ called' = called \cup {"generatePrivacyGraph"}
    /\ graph' = generateGraphData(personas, warnings)
    /\ personas' = [k \in 1..Len(personas) |->
                       [id |-> personas[k].id,
                        isPublic |-> personas[k].isPublic,
                        privateData |-> personas[k].privateData,
                        label |-> Label(personas[k].id)]]
    /\ UNCHANGED <<pc, strA, strB, similarity, warnings, privacyScore,
                   recommendations, hook>>

PipelineGraph ==
    /\ pc = "analyzed"
    /\ "generatePrivacyGraph" \notin called
    /\ called' = called \cup {"generatePrivacyGraph"}
    /\ graph' = generateGraphData(personas, warnings)
    /\ UNCHANGED <<pc, strA, strB, similarity, personas, warnings,
                   privacyScore, recommendations, hook>>

NextPipeline ==
    \/ PipelineAnalyze
    \/ PipelineScore
    \/ PipelineRecommend
    \/ PipelineGraph

SpecPipeline == InitPipeline /\ [][NextPipeline]_vars

----------------------------------------------------------------------------
(* Vocabulary of the properties *)

\* the reference Levenshtein distance: unit-cost insert, delete, substitute
RECURSIVE RefLev(_, _)
RefLev(a, b) ==
    IF a = <<>> THEN Len(b)
    ELSE IF b = <<>> THEN Len(a)
    ELSE IF a[1] = b[1] THEN RefLev(Tail(a), Tail(b))
    ELSE 1 + Min(Min(RefLev(Tail(a), b), RefLev(a, Tail(b))),
                 RefLev(Tail(a), Tail(b)))

\* the two fractions are the same number
SameNumber(x, y) == x.num * y.den = y.num * x.den

\* the distance the code's matrix ends with
MatrixDistance(a, b) == LevenshteinMatrix(a, b)[Len(a) + 1][Len(b) + 1]

AccountsOf(i) == personas[i].privateData.accounts

NotesOf(i) == personas[i].privateData.notes

ListedAccounts == UNION {Range(AccountsOf(i)) : i \in 1..Len(personas)}

\* the ids of the personas that list the account string s
HolderIds(s) ==
    {personas[i].id : i \in {k \in 1..Len(personas) : s \in Range(AccountsOf(k))}}

\* the place where s is first met, going through the personas in input order
FirstSeen(s) ==
    LET places == {<<i, j>> \in (1..Len(personas)) \X (1..MaxAccounts + 1) :
                      j <= Len(AccountsOf(i)) /\ AccountsOf(i)[j] = s}
    IN  CHOOSE p \in places :
            \A q \in places : p[1] < q[1] \/ (p[1] = q[1] /\ p[2] <= q[2])

Earlier(p, q) == p[1] < q[1] \/ (p[1] = q[1] /\ p[2] < q[2])

\* desc holds s between two double quotes
ContainsQuoted(desc, s) ==
    \E i \in 1..Len(desc) :
        /\ i + Len(s) + 1 <= Len(desc)
        /\ SubSeq(desc, i, i + Len(s) + 1) = <<Quote>> \o s \o <<Quote>>

WarningsOfType(t) == {k \in 1..Len(warnings) : warnings[k].type = t}

ColonsOf(s) == {i \in 1..Len(s) : s[i] = ":"}

HasOneColon(s) == Cardinality(ColonsOf(s)) = 1

PlatformOf(s) == SubSeq(s, 1, (CHOOSE i \in ColonsOf(s) : TRUE) - 1)

HandleOf(s) ==
    toLowerCase(SubSeq(s, (CHOOSE i \in ColonsOf(s) : TRUE) + 1, Len(s)))

\* the distinct lowercased usernames of the persona list
Usernames == {HandleOf(s) : s \in {x \in ListedAccounts : HasOneColon(x)}}

UsernameHolderIds(u) ==
    {personas[i].id : i \in {k \in 1..Len(personas) :
        \E s \in Range(AccountsOf(k)) : HasOneColon(s) /\ HandleOf(s) = u}}

UsernamePairs == {pair \in SUBSET Usernames : Cardinality(pair) = 2}

\* similarity strictly above 0.7, said with the distance
CloseUsernames(pair) ==
    \E u, v \in pair :
        /\ u # v
        /\ 10 * MatrixDistance(u, v) < 3 * Max(Len(u), Len(v))

QuotesPair(desc, pair) == \A u \in pair : ContainsQuoted(desc, u)

\* both notes non-empty and their lowercased similarity strictly above 0.5
CloseNotes(i, j) ==
    LET a == toLowerCase(NotesOf(i))
        b == toLowerCase(NotesOf(j))
    IN  /\ a # <<>>
        /\ b # <<>>
        /\ 2 * RefLev(a, b) < Max(Len(a), Len(b))

\* the count of warnings of a type, as a set of places
CountOf(t) == Cardinality(WarningsOfType(t))

----------------------------------------------------------------------------
(* Properties *)

\* C1: an account_overlap warning is returned only for an account string that
\* at least two distinct personas list; a string that one persona lists twice
\* and no other persona lists gets none.
C1_OverlapOnlyAcrossDistinctPersonas ==
    (pc = "analyzed" /\ Len(personas) >= 2) =>
        \A s \in ListedAccounts :
            Cardinality(HolderIds(s)) < 2 =>
                ~\E k \in WarningsOfType("account_overlap") :
                    ContainsQuoted(warnings[k].description, s)

\* C2: every account string that at least two distinct personas list verbatim
\* gets exactly one account_overlap warning quoting it, of severity high, whose
\* affectedPersonas are as a set the ids of the personas listing it; the overlap
\* warnings come in the order in which their account strings are first met.
C2_OverlapPerSharedAccount ==
    (pc = "analyzed" /\ Len(personas) >= 2) =>
        /\ \A s \in ListedAccounts :
               Cardinality(HolderIds(s)) >= 2 =>
                   \E k \in WarningsOfType("account_overlap") :
                       /\ {l \in WarningsOfType("account_overlap") :
                              ContainsQuoted(warnings[l].description, s)} = {k}
                       /\ warnings[k].severity = "high"
                       /\ Range(warnings[k].affectedPersonas) = HolderIds(s)
        /\ \A k, l \in WarningsOfType("account_overlap") :
               k < l =>
                   \A s, t \in ListedAccounts :
                       (/\ ContainsQuoted(warnings[k].description, s)
                        /\ ContainsQuoted(warnings[l].description, t))
                           => Earlier(FirstSeen(s), FirstSeen(t))

C2_Witness ==
    /\ pc = "analyzed"
    /\ Cardinality(WarningsOfType("account_overlap")) >= 2
    /\ \E s, t \in ListedAccounts :
           /\ Cardinality(HolderIds(s)) >= 2
           /\ Cardinality(HolderIds(t)) >= 2
           /\ Earlier(FirstSeen(s), FirstSeen(t))
           /\ \E i \in 1..Len(personas) :
                  \E j, k \in 1..Len(AccountsOf(i)) :
                      j < k /\ AccountsOf(i)[j] = t /\ AccountsOf(i)[k] = s

\* C3: the similarity is 1.0 exactly when the two strings are equal, the empty
\* strings included, and strictly below 1.0 when they differ.
C3_OneIffEqual ==
    pc = "compared" =>
        /\ (similarity.num = similarity.den) <=> (strA = strB)
        /\ strA # strB => similarity.num < similarity.den

C3_Witness ==
    /\ pc = "compared"
    /\ strA = <<>>
    /\ strB = <<>>
    /\ similarity.num = similarity.den

\* C4: for different strings the similarity is 1 - lev / max(len), the matrix
\* ends with the reference distance, the result lies in [0, 1], and it is 0
\* when exactly one of the strings is empty.
C4_SimilarityIsLevenshtein ==
    pc = "compared" =>
        /\ similarity.den > 0
        /\ 0 <= similarity.num
        /\ similarity.num <= similarity.den
        /\ strA # strB =>
               similarity.num * Max(Len(strA), Len(strB))
                   = (Max(Len(strA), Len(strB)) - RefLev(strA, strB))
                         * similarity.den
        /\ (strA # strB /\ strA # <<>> /\ strB # <<>>) =>
               MatrixDistance(strA, strB) = RefLev(strA, strB)
        /\ ((strA = <<>>) # (strB = <<>>)) => similarity.num = 0

C4_Witness ==
    /\ pc = "compared"
    /\ Len(strA) # Len(strB)
    /\ 0 < similarity.num
    /\ similarity.num < similarity.den
    /\ \E i \in 1..Len(strA), j \in 1..Len(strB) : strA[i] = strB[j]

\* C5: the similarity of a and b is the similarity of b and a.
C5_Symmetric ==
    pc = "compared" =>
        SameNumber(similarity, calculateStringSimilarity(strB, strA))

C5_Witness ==
    /\ pc = "compared"
    /\ Len(strA) < Len(strB)
    /\ strA # <<>>
    /\ similarity.num > 0

\* C6: no persona or one persona gives no warning, whatever the persona holds.
C6_NothingBelowTwoPersonas ==
    (pc = "analyzed" /\ Len(personas) <= 1) => warnings = <<>>

C6_Witness ==
    /\ pc = "analyzed"
    /\ Len(personas) = 1
    /\ warnings = <<>>
    /\ \E j, k \in 1..Len(AccountsOf(1)) :
           j < k /\ AccountsOf(1)[j] = AccountsOf(1)[k]

\* C7: over the distinct lowercased usernames of the accounts with exactly one
\* colon, each unordered pair with similarity strictly above 0.7 gets exactly
\* one username_reuse warning and every other pair none; such a warning has
\* severity medium, quotes both usernames, and its affectedPersonas are the
\* ids of the personas holding either username.
C7_ReuseByThreshold ==
    (pc = "analyzed" /\ Len(personas) >= 2) =>
        /\ \A pair \in UsernamePairs :
               Cardinality({k \in WarningsOfType("username_reuse") :
                               QuotesPair(warnings[k].description, pair)})
                   = IF CloseUsernames(pair) THEN 1 ELSE 0
        /\ CountOf("username_reuse")
               = Cardinality({pair \in UsernamePairs : CloseUsernames(pair)})
        /\ \A k \in WarningsOfType("username_reuse") :
               /\ warnings[k].severity = "medium"
               /\ \E pair \in UsernamePairs :
                      /\ CloseUsernames(pair)
                      /\ QuotesPair(warnings[k].description, pair)
                      /\ Range(warnings[k].affectedPersonas)
                             = UNION {UsernameHolderIds(u) : u \in pair}

C7_Witness ==
    /\ pc = "analyzed"
    /\ \E k \in WarningsOfType("username_reuse") :
           Cardinality(Range(warnings[k].affectedPersonas)) = 3
    /\ \E i \in 1..Len(personas) :
           Cardinality({HandleOf(s) : s \in {x \in Range(AccountsOf(i)) :
                                                HasOneColon(x)}}) = 2

\* C8: two distinct personas holding the same username, equal after
\* lowercasing, on different platforms get at least one warning naming both.
C8_SameUsernameAcrossPlatformsWarned ==
    (pc = "analyzed" /\ Len(personas) >= 2) =>
        \A i, j \in 1..Len(personas) :
            \A s \in Range(AccountsOf(i)), t \in Range(AccountsOf(j)) :
                (/\ i # j
                 /\ HasOneColon(s)
                 /\ HasOneColon(t)
                 /\ PlatformOf(s) # PlatformOf(t)
                 /\ HandleOf(s) = HandleOf(t))
                    => \E k \in 1..Len(warnings) :
                           {personas[i].id, personas[j].id}
                               \subseteq Range(warnings[k].affectedPersonas)

\* C9: each pair of personas i < j with both notes non-empty and lowercased
\* similarity strictly above 0.5 gets exactly one metadata_similarity warning,
\* of severity low and affectedPersonas [id_i, id_j]; no other pair gets one.
C9_MetadataPairwise ==
    (pc = "analyzed" /\ Len(personas) >= 2) =>
        /\ \A i, j \in 1..Len(personas) :
               i < j =>
                   Cardinality({k \in WarningsOfType("metadata_similarity") :
                       warnings[k].affectedPersonas
                           = <<personas[i].id, personas[j].id>>})
                       = IF CloseNotes(i, j) THEN 1 ELSE 0
        /\ CountOf("metadata_similarity")
               = Cardinality({p \in (1..Len(personas)) \X (1..Len(personas)) :
                                 p[1] < p[2] /\ CloseNotes(p[1], p[2])})
        /\ \A k \in WarningsOfType("metadata_similarity") :
               warnings[k].severity = "low"

C9_Witness ==
    /\ pc = "analyzed"
    /\ CountOf("metadata_similarity") = 1
    /\ \E i, j, k \in 1..Len(personas) :
           /\ i < j
           /\ CloseNotes(i, j)
           /\ NotesOf(i) # NotesOf(j)
           /\ NotesOf(k) = <<>>

\* C10: the sub-scores are 100 less 50, 25 and 15 per warning of their type,
\* never below 0; the score is the weighted sum (5, 3, 2 tenths) rounded to the
\* nearest integer, a half going up; all four are integers in 0..100; no
\* warning gives 100 everywhere and one account_overlap warning gives 50 and 75.
C10_ScoreFormula ==
    pc = "scored" =>
        LET o == CountOf("account_overlap")
            u == CountOf("username_reuse")
            m == CountOf("metadata_similarity")
            r == privacyScore
            tenths == 5 * r.accountIsolation + 3 * r.usernameUniqueness
                          + 2 * r.metadataSeparation
        IN  /\ r.accountIsolation = (IF 50 * o <= 100 THEN 100 - 50 * o ELSE 0)
            /\ r.usernameUniqueness = (IF 25 * u <= 100 THEN 100 - 25 * u ELSE 0)
            /\ r.metadataSeparation = (IF 15 * m <= 100 THEN 100 - 15 * m ELSE 0)
            /\ 10 * r.score - 5 <= tenths
            /\ tenths < 10 * r.score + 5
            /\ {r.score, r.accountIsolation, r.usernameUniqueness,
                r.metadataSeparation} \subseteq 0..100
            /\ warnings = <<>> =>
                   /\ r.score = 100
                   /\ r.accountIsolation = 100
                   /\ r.usernameUniqueness = 100
                   /\ r.metadataSeparation = 100
            /\ (Len(warnings) = 1 /\ o = 1) =>
                   r.accountIsolation = 50 /\ r.score = 75

C10_Witness ==
    /\ pc = "scored"
    /\ CountOf("metadata_similarity") = 7
    /\ CountOf("username_reuse") = 1
    /\ privacyScore.metadataSeparation = 0
    /\ privacyScore.score = 73

\* C11: the grade is decided by the score alone: below 60 F, 60..69 D, 70..79 C,
\* 80..89 B, 90..94 A, 95..100 A+; a boundary score gets the higher grade.
C11_GradeByThreshold ==
    pc = "scored" =>
        LET s == privacyScore.score
            g == privacyScore.grade
        IN  /\ g \in {"A+", "A", "B", "C", "D", "F"}
            /\ (g = "F") <=> (s < 60)
            /\ (g = "D") <=> (s \in 60..69)
            /\ (g = "C") <=> (s \in 70..79)
            /\ (g = "B") <=> (s \in 80..89)
            /\ (g = "A") <=> (s \in 90..94)
            /\ (g = "A+") <=> (s \in 95..100)

C11_Witness ==
    /\ pc = "scored"
    /\ privacyScore.score = 90
    /\ privacyScore.grade = "A"

\* the per-account instruction that names s is among the recommendations
NamesAccount(s) ==
    \E r \in 1..Len(recommendations) : recommendations[r] = AccountAdvice(s)

\* analyzePrivacy returned an account_overlap warning for the string s
OverlapWarned(s) ==
    \E k \in WarningsOfType("account_overlap") :
        warnings[k].description = OverlapDescription(s)

\* C12: for every account_overlap warning that analyzePrivacy returns for an
\* account string s, the empty string and strings with a double quote included,
\* the recommendations for that output hold an instruction naming exactly s.
C12_RecommendationNamesAccount ==
    "generateRecommendations" \in called =>
        \A s \in ListedAccounts : OverlapWarned(s) => NamesAccount(s)

\* C13: the recommendations are the positive message alone exactly when the
\* warning list is empty; for a non-empty list the positive message is absent
\* and the last two recommendations are the writing-style suggestion and then
\* the timing suggestion.
C13_PositiveIffNoWarnings ==
    pc = "advised" =>
        LET r == recommendations
            n == Len(recommendations)
        IN  /\ (r = <<PositiveAdvice>>) <=> (warnings = <<>>)
            /\ warnings # <<>> =>
                   /\ \A k \in 1..n : r[k] # PositiveAdvice
                   /\ n >= 2
                   /\ r[n - 1] = StyleAdvice
                   /\ r[n] = TimingAdvice

C13_Witness ==
    /\ pc = "advised"
    /\ Len(warnings) = 2
    /\ warnings[1].type = "metadata_similarity"
    /\ warnings[2].type = "username_reuse"
    /\ recommendations =
           <<UsernameAdvice, MetadataAdvice, StyleAdvice, TimingAdvice>>

\* the number of index pairs i < j among k places
PairCount(k) == (k * (k - 1)) \div 2

\* the number of links owed to the warnings before warning w
RECURSIVE LinksBefore(_)
LinksBefore(w) ==
    IF w = 1 THEN 0
    ELSE LinksBefore(w - 1) + PairCount(Len(warnings[w - 1].affectedPersonas))

\* the place of the pair i < j among the pairs of k places, in loop order
PairPlace(k, i, j) == (i - 1) * k - PairCount(i) + (j - i)

\* C14: the links are, for each warning in input order and each index pair
\* i < j of its affectedPersonas in loop order, one link from the i-th id to the
\* j-th with the warning's type and severity: k ids give k*(k-1)/2 links, the
\* total is the sum over the warnings, and nothing is merged.
C14_LinkPerPairPerWarning ==
    pc = "graphed" =>
        /\ Len(graph.links) = LinksBefore(Len(warnings) + 1)
        /\ \A w \in 1..Len(warnings) :
               LET ids == warnings[w].affectedPersonas
               IN  \A i, j \in 1..Len(ids) :
                       i < j =>
                           graph.links[LinksBefore(w) + PairPlace(Len(ids), i, j)]
                               = [source |-> ids[i], target |-> ids[j],
                                  type |-> warnings[w].type,
                                  severity |-> warnings[w].severity]

C14_Witness ==
    /\ pc = "graphed"
    /\ Len(warnings) = 2
    /\ Len(warnings[1].affectedPersonas) = 3
    /\ warnings[2].affectedPersonas = SubSeq(warnings[1].affectedPersonas, 1, 2)
    /\ warnings[2].type = warnings[1].type
    /\ Len(graph.links) = 4
    /\ graph.links[4] = graph.links[1]

\* C15: the nodes are one per persona in input order; node k carries the
\* persona's id, the number of its accounts and as label the first 8 characters
\* of the id, or the whole id when it is shorter; the warnings play no part.
C15_NodePerPersona ==
    pc = "graphed" =>
        /\ Len(graph.nodes) = Len(personas)
        /\ \A k \in 1..Len(personas) :
               LET id == personas[k].id
                   node == graph.nodes[k]
               IN  /\ node.id = id
                   /\ node.accounts = Len(AccountsOf(k))
                   /\ node.label = IF Len(id) < 8 THEN id
                                   ELSE [c \in 1..8 |-> id[c]]

C15_Witness ==
    /\ pc = "graphed"
    /\ Len(personas) = 3
    /\ warnings # <<>>
    /\ graph.nodes[1].label = PersonaPrefix
    /\ graph.nodes[1].id # PersonaPrefix
    /\ graph.nodes[2].label = <<"p", "2">>
    /\ graph.nodes[3].label = graph.nodes[3].id
    /\ graph.nodes[1].accounts = 2
    /\ graph.nodes[2].accounts = 0

\* the places of the persona list that list the account string s
Holders(s) == {k \in 1..Len(personas) : s \in Range(AccountsOf(k))}

\* how many times persona k lists s
TimesListed(k, s) ==
    Cardinality({a \in 1..Len(AccountsOf(k)) : AccountsOf(k)[a] = s})

\* s is the one shared account string, listed once by p and once by q and by
\* no one else; all notes are empty and no two usernames are close
OneSharedAccount(s, p, q) ==
    /\ p < q
    /\ Holders(s) = {p, q}
    /\ TimesListed(p, s) = 1
    /\ TimesListed(q, s) = 1
    /\ \A t \in ListedAccounts \ {s} : Cardinality(Holders(t)) = 1
    /\ \A k \in 1..Len(personas) : NotesOf(k) = <<>>
    /\ \A pair \in UsernamePairs : ~CloseUsernames(pair)

\* C16: when exactly one account string is shared, by exactly two personas P
\* before Q that list it once each, all notes are empty and no usernames are
\* close, analyzePrivacy returns one warning (account_overlap, high, [P, Q]),
\* its score is 75 with grade C, and its graph has one node per persona and
\* the single link from P to Q.
C16_OneOverlapEndToEnd ==
    pc = "analyzed" =>
        \A s \in ListedAccounts : \A p, q \in 1..Len(personas) :
            OneSharedAccount(s, p, q) =>
                /\ Len(warnings) = 1
                /\ warnings[1].type = "account_overlap"
                /\ warnings[1].severity = "high"
                /\ warnings[1].affectedPersonas = <<personas[p].id, personas[q].id>>
                /\ "calculatePrivacyScore" \in called =>
                       privacyScore.score = 75 /\ privacyScore.grade = "C"
                /\ "generatePrivacyGraph" \in called =>
                       /\ Len(graph.nodes) = Len(personas)
                       /\ Len(graph.links) = 1
                       /\ graph.links[1].source = personas[p].id
                       /\ graph.links[1].target = personas[q].id

\* C17: no call of analyzePrivacy, calculatePrivacyScore,
\* generateRecommendations or generatePrivacyGraph changes the persona list it
\* is given, and none of the last three changes the warning list it is given:
\* every persona and every warning keeps its value through every step.
C17_InputsUnchanged ==
    [][/\ personas' = personas
       /\ pc = "analyzed" => warnings' = warnings]_vars

C17_Witness ==
    /\ called = {"analyzePrivacy", "calculatePrivacyScore",
                 "generateRecommendations", "generatePrivacyGraph"}
    /\ Len(personas) >= 2
    /\ Len(warnings) >= 2

\* the rank of a warning type in the fixed order of the detectors
TypeRank(t) ==
    CASE t = "account_overlap" -> 1
      [] t = "username_reuse" -> 2
      [] t = "metadata_similarity" -> 3

\* the warnings of type t, in the order they were returned
ReturnedOfType(t) == SelectSeq(warnings, LAMBDA w : w.type = t)

\* C18: in the returned list every account_overlap warning comes before every
\* username_reuse warning and these before every metadata_similarity warning;
\* for two or more personas the warnings of each type are exactly the output of
\* that type's detector, none dropped and none merged with another type's.
C18_DetectorsConcatenated ==
    pc = "analyzed" =>
        /\ \A j, k \in 1..Len(warnings) :
               j < k => TypeRank(warnings[j].type) <= TypeRank(warnings[k].type)
        /\ Len(personas) >= 2 =>
               /\ ReturnedOfType("account_overlap") = detectAccountOverlaps(personas)
               /\ ReturnedOfType("username_reuse") = detectUsernamePatterns(personas)
               /\ ReturnedOfType("metadata_similarity")
                      = detectMetadataSimilarities(personas)
               /\ Len(warnings) = CountOf("account_overlap")
                      + CountOf("username_reuse") + CountOf("metadata_similarity")

C18_Witness ==
    /\ pc = "analyzed"
    /\ Len(warnings) = 3
    /\ warnings[1].type = "account_overlap"
    /\ warnings[2].type = "username_reuse"
    /\ warnings[3].type = "metadata_similarity"
    /\ warnings[1].affectedPersonas = warnings[3].affectedPersonas

\* C19: every returned warning has one of the three types, and its severity is
\* the one of its type: account_overlap high, username_reuse medium,
\* metadata_similarity low.
C19_SeverityByType ==
    pc = "analyzed" =>
        \A k \in 1..Len(warnings) :
            LET w == warnings[k]
            IN  /\ w.type \in WarningTypes
                /\ w.type = "account_overlap" => w.severity = "high"
                /\ w.type = "username_reuse" => w.severity = "medium"
                /\ w.type = "metadata_similarity" => w.severity = "low"

C19_Witness ==
    /\ pc = "analyzed"
    /\ \E i, j, k \in 1..Len(warnings) :
           /\ warnings[i].type = "account_overlap" /\ warnings[i].severity = "high"
           /\ warnings[j].type = "username_reuse" /\ warnings[j].severity = "medium"
           /\ warnings[k].type = "metadata_similarity" /\ warnings[k].severity = "low"

\* C20: with unique persona ids, no persona id occurs more than once in the
\* affectedPersonas of any returned warning, whatever its type.
C20_AffectedPersonasIsSet ==
    pc = "analyzed" =>
        \A k \in 1..Len(warnings) :
            LET ids == warnings[k].affectedPersonas
            IN  \A i, j \in 1..Len(ids) : i # j => ids[i] # ids[j]

\* C21: every username_reuse warning names at least two distinct personas, so
\* similar usernames that one and the same persona holds produce no warning.
C21_ReuseAcrossPersonas ==
    pc = "analyzed" =>
        \A k \in WarningsOfType("username_reuse") :
            Cardinality(Range(warnings[k].affectedPersonas)) >= 2

\* the persona list with every account string that does not have exactly one
\* colon taken out
WithoutSkipped(ps) ==
    [i \in 1..Len(ps) |->
        [ps[i] EXCEPT !.privateData.accounts = SelectSeq(@, HasOneColon)]]

\* C22: an account string with no colon or with two or more colons yields no
\* username: the username_reuse warnings are those of the same personas
\* without such strings and quote usernames of one-colon strings only, while
\* such a string listed by two personas still gets its account_overlap warning.
C22_SkippedByUsernameDetector ==
    (pc = "analyzed" /\ Len(personas) >= 2) =>
        /\ ReturnedOfType("username_reuse")
               = detectUsernamePatterns(WithoutSkipped(personas))
        /\ \A k \in WarningsOfType("username_reuse") :
               \E u, v \in Usernames :
                   warnings[k].description = ReuseDescription(u, v)
        /\ \A s \in ListedAccounts :
               (~HasOneColon(s) /\ Cardinality(Holders(s)) >= 2)
                   => OverlapWarned(s)

C22_Witness ==
    /\ pc = "analyzed"
    /\ CountOf("username_reuse") = 1
    /\ \E s \in ListedAccounts :
           /\ Len(s) > 0
           /\ ~HasOneColon(s)
           /\ Cardinality(Holders(s)) >= 2
           /\ OverlapWarned(s)

\* a warning of type t that says nothing else
BareWarning(t) ==
    [type |-> t, description |-> <<>>, severity |-> "low",
     affectedPersonas |-> <<>>]

\* the list with as many warnings of each type as the warning list, in the
\* order of the types, every warning bare
SameCounts ==
    Run(BareWarning("account_overlap"), CountOf("account_overlap"))
        \o Run(BareWarning("username_reuse"), CountOf("username_reuse"))
        \o Run(BareWarning("metadata_similarity"), CountOf("metadata_similarity"))

\* C23: the score, the grade and the sub-scores of a warning list are those of
\* any list with the same number of warnings of each type, whatever the
\* severities, descriptions, affectedPersonas and order of the warnings.
C23_ScoreByTypeCounts ==
    pc = "scored" => privacyScore = calculatePrivacyScore(SameCounts)

C23_Witness ==
    /\ pc = "scored"
    /\ Len(warnings) = 3
    /\ warnings[1].type = "metadata_similarity"
    /\ warnings[1].severity = "high"
    /\ warnings[2].type = "account_overlap"
    /\ warnings[2].severity = "low"
    /\ warnings[3].type = "account_overlap"
    /\ warnings[3].severity = "medium"
    /\ privacyScore.score = 47

\* the places of the double quotes of desc
QuotePlaces(desc) == {i \in 1..Len(desc) : desc[i] = Quote}

\* the quotes at i and j enclose one or more characters, none of them a quote
Encloses(desc, i, j) ==
    /\ i \in QuotePlaces(desc)
    /\ j \in QuotePlaces(desc)
    /\ j > i + 1
    /\ \A m \in (i + 1)..(j - 1) : m \notin QuotePlaces(desc)

\* desc has a non-empty quoted stretch
HasQuoted(desc) == \E i, j \in 1..Len(desc) : Encloses(desc, i, j)

\* the text between the first double quote of desc and the next one
FirstPairText(desc) ==
    LET first == CHOOSE i \in QuotePlaces(desc) :
                     \A m \in QuotePlaces(desc) : i <= m
        next  == CHOOSE j \in QuotePlaces(desc) \ {first} :
                     \A m \in QuotePlaces(desc) \ {first} : j <= m
    IN  SubSeq(desc, first + 1, next - 1)

\* the leftmost non-empty quoted stretch of desc
LeftmostQuotedText(desc) ==
    LET first == CHOOSE i \in QuotePlaces(desc) :
                     /\ \E j \in QuotePlaces(desc) : Encloses(desc, i, j)
                     /\ \A m \in QuotePlaces(desc) :
                            (\E j \in QuotePlaces(desc) : Encloses(desc, m, j))
                                => i <= m
        next  == CHOOSE j \in QuotePlaces(desc) : Encloses(desc, first, j)
    IN  SubSeq(desc, first + 1, next - 1)

\* the recommendations owed to the warning list when the per-account
\* instruction of a description names Named(description)
AdviceNaming(Named(_)) ==
    LET overlaps == ReturnedOfType("account_overlap")
        quoted == SelectSeq(overlaps, LAMBDA w : HasQuoted(w.description))
    IN  (IF overlaps # <<>>
         THEN <<OverlapAdvice>>
                  \o [k \in 1..Len(quoted) |->
                         AccountAdvice(Named(quoted[k].description))]
         ELSE <<>>)
        \o (IF CountOf("username_reuse") > 0 THEN <<UsernameAdvice>> ELSE <<>>)
        \o (IF CountOf("metadata_similarity") > 0 THEN <<MetadataAdvice>> ELSE <<>>)
        \o <<StyleAdvice, TimingAdvice>>

C25_NoSelfLoop ==
    "generatePrivacyGraph" \in called =>
        \A k \in 1..Len(graph.links) :
            graph.links[k].source # graph.links[k].target

\* the ids of the persona list
PersonaIds == {personas[i].id : i \in 1..Len(personas)}

\* C26: every id in the affectedPersonas of a returned warning is the id of a
\* persona of the input list, and every link source and target of the graph of
\* that input and output is the id of a node of the graph.
C26_NoDanglingId ==
    /\ pc = "analyzed" =>
           \A k \in 1..Len(warnings) :
               Range(warnings[k].affectedPersonas) \subseteq PersonaIds
    /\ "generatePrivacyGraph" \in called =>
           LET nodeIds == {graph.nodes[n].id : n \in 1..Len(graph.nodes)}
           IN  \A k \in 1..Len(graph.links) :
                   /\ graph.links[k].source \in nodeIds
                   /\ graph.links[k].target \in nodeIds

C26_Witness ==
    /\ "generatePrivacyGraph" \in called
    /\ Len(personas) = 3
    /\ Len(graph.links) >= 2
    /\ \E k \in 1..Len(graph.links) :
           /\ Len(graph.links[k].source) > 8
           /\ graph.links[k].target = personas[3].id

\* the orders in which n personas can be given
Orders(n) == {f \in [1..n -> 1..n] : \A i, j \in 1..n : i # j => f[i] # f[j]}

\* the persona list given in the order f
Reordered(f) == [i \in 1..Len(personas) |-> personas[f[i]]]

\* how many warnings of ws have type t and name exactly the personas of ids
NamingAs(ws, t, ids) ==
    Cardinality({k \in 1..Len(ws) :
        ws[k].type = t /\ Range(ws[k].affectedPersonas) = ids})

\* C27: analyzing the personas in any other order returns as many warnings of
\* each type naming each set of personas, and so the same score, grade and
\* sub-scores.
C27_OrderOfPersonasIrrelevant ==
    pc = "analyzed" =>
        \A f \in Orders(Len(personas)) :
            LET other == analyzePrivacy(Reordered(f))
            IN  /\ \A t \in WarningTypes, ids \in SUBSET PersonaIds :
                       NamingAs(other, t, ids) = NamingAs(warnings, t, ids)
                /\ Len(other) = Len(warnings)
                /\ calculatePrivacyScore(other) = calculatePrivacyScore(warnings)

C27_Witness ==
    /\ pc = "analyzed"
    /\ Len(personas) = 3
    /\ CountOf("account_overlap") > 0
    /\ CountOf("username_reuse") > 0
    /\ CountOf("metadata_similarity") > 0
    /\ \E f \in Orders(3) :
           /\ analyzePrivacy(Reordered(f)) # warnings
           /\ NotesOf(f[1]) # NotesOf(1)

\* the place of a grade in the order F < D < C < B < A < A+
GradeRank(g) ==
    CASE g = "F" -> 0 [] g = "D" -> 1 [] g = "C" -> 2
      [] g = "B" -> 3 [] g = "A" -> 4 [] g = "A+" -> 5

\* the result for the warning list with the warning w appended
ScoreWith(w) == calculatePrivacyScore(Append(warnings, w))

\* C28: appending a warning to the warning list never raises the score, any
\* of the three sub-scores or the grade.
C28_ScoreMonotone ==
    pc = "scored" =>
        \A w \in WarningPool :
            /\ ScoreWith(w).score <= privacyScore.score
            /\ ScoreWith(w).accountIsolation <= privacyScore.accountIsolation
            /\ ScoreWith(w).usernameUniqueness <= privacyScore.usernameUniqueness
            /\ ScoreWith(w).metadataSeparation <= privacyScore.metadataSeparation
            /\ GradeRank(ScoreWith(w).grade) <= GradeRank(privacyScore.grade)

C28_Witness ==
    /\ pc = "scored"
    /\ privacyScore.grade = "B"
    /\ privacyScore.accountIsolation = 100
    /\ \E w \in WarningPool : ScoreWith(w).grade = "F"
    /\ \E w \in WarningPool : ScoreWith(w).score = privacyScore.score

\* C29: the Overall Rating letter of the graph page for the warnings that
\* analyzePrivacy returned is the grade calculatePrivacyScore gives them.
C29_RatingIsGrade ==
    pc = "analyzed" =>
        OverallRating(warnings) = calculatePrivacyScore(warnings).grade

\* what the hook has stored of an analysis
Stored(h) == <<h.warnings, h.privacyScore, h.recommendations>>

\* C30: whenever analyzePersonas has returned, isAnalyzing is false; a call
\* whose analysis threw has returned null and set the error; a call that
\* succeeded has cleared the error and stored the warnings of its personas with
\* their calculatePrivacyScore and generateRecommendations; and no step but
\* the successful try block changes the stored warnings, score and
\* recommendations.
C30_HookSettles ==
    /\ [](pc = "idle" =>
            /\ hook.isAnalyzing = FALSE
            /\ hook.error # None =>
                   /\ hook.error = "Failed to analyze privacy"
                   /\ hook.returned = <<>>
                   /\ Throws(personas)
            /\ hook.returned # <<>> =>
                   /\ hook.error = None
                   /\ hook.warnings = analyzePrivacy(personas)
                   /\ hook.privacyScore = <<calculatePrivacyScore(hook.warnings)>>
                   /\ hook.recommendations = generateRecommendations(hook.warnings)
                   /\ hook.returned[1].warnings = hook.warnings
                   /\ hook.returned[1].score = hook.privacyScore[1]
                   /\ hook.returned[1].recommendations = hook.recommendations)
    /\ [][(pc = "try" /\ pc' = "finally") \/ Stored(hook') = Stored(hook)]_vars

C30_Witness ==
    /\ pc = "idle"
    /\ hook.error = "Failed to analyze privacy"
    /\ hook.returned = <<>>
    /\ Len(hook.warnings) = 2
    /\ hook.privacyScore # <<>>
    /\ Len(hook.recommendations) = 5

====
